---- MODULE Spec2Model ----
(***************************************************************************)
(* Model of infra/cleanup-function/main.py: the hourly job that stops idle *)
(* dev environments (snapshot the disk, then delete the instance).         *)
(*                                                                         *)
(* Strings are modelled by their content.  A metadata value is a record    *)
(*   [form, chars, wall, tz]                                               *)
(* form = "none"  the key is absent (Python None),                         *)
(* form = "text"  a string that is no ISO-8601 timestamp; chars holds its  *)
(*                characters (<<>> is the empty string),                   *)
(* form = "iso"   an ISO-8601 timestamp string: wall is the wall-clock     *)
(*                reading in seconds since the model's epoch and tz the    *)
(*                characters that follow the time of day: <<>> for a       *)
(*                timestamp written without an offset, <<"Z">>, or a sign  *)
(*                followed by HH, HHMM, HH:MM, HHMMSS or HH:MM:SS.         *)
(* Instants and durations are whole seconds.                               *)
(***************************************************************************)
EXTENDS Integers, Sequences, FiniteSets, TLC

(***************************************************************************)
(* Program constants and model bounds                                      *)
(***************************************************************************)
IDLE_TIMEOUT_HOURS == 12

SecondsPerHour == 3600

MaxInstances == 2

\* Longest username given to get_snapshot_name when it is applied alone
MaxNameLen == 3

\* Longest listing of the runs checked for termination
MaxLiveInstances == 2

\* The clock reading at the start of a run (seconds since the model's epoch).
Now0 == 200000

\* Longest run, in seconds from its start to its last reading of the clock
MaxElapsed == 4

\* time.sleep(2) of the waiters
SleepSeconds == 2

(***************************************************************************)
(* Strings                                                                 *)
(***************************************************************************)
None == [form |-> "none", chars |-> <<>>, wall |-> 0, tz |-> <<>>]

Text(cs) == [form |-> "text", chars |-> cs, wall |-> 0, tz |-> <<>>]

Iso(w, z) == [form |-> "iso", chars |-> <<>>, wall |-> w, tz |-> z]

\* Python truthiness of an optional string: None and "" are falsy.
Truthy(v) == v.form = "iso" \/ (v.form = "text" /\ v.chars # <<>>)

\* "unknown", "not-a-date" written as character sequences.
Unknown == <<"u", "n", "k", "n", "o", "w", "n">>

NotADate == <<"n", "o", "t", "-", "a", "-", "d", "a", "t", "e">>

(***************************************************************************)
(* get_metadata_value: the value of the first item with the key, or None.  *)
(* metadata is the sequence instance.metadata.items; an instance without   *)
(* metadata has the empty sequence.                                        *)
(***************************************************************************)
RECURSIVE FirstMatch(_, _, _)
FirstMatch(items, key, i) ==
    IF i > Len(items) THEN None
    ELSE IF items[i].key = key THEN items[i].value
    ELSE FirstMatch(items, key, i + 1)

get_metadata_value(instance, key) ==
    IF instance.metadata = <<>> THEN None
    ELSE FirstMatch(instance.metadata, key, 1)

(***************************************************************************)
(* datetime.fromisoformat(s.replace("Z", "+00:00"))                        *)
(***************************************************************************)
\* Zone suffixes of the timestamps the model draws
NoOffset == <<>>

Zulu == <<"Z">>

Utc == <<"+", "0", "0", ":", "0", "0">>

Plus8 == <<"+", "0", "8", ":", "0", "0">>

Plus0530 == <<"+", "0", "5", ":", "3", "0">>

Minus8 == <<"-", "0", "8", ":", "0", "0">>

Plus24 == <<"+", "2", "4", ":", "0", "0">>

DigitChars == <<"0", "1", "2", "3", "4", "5", "6", "7", "8", "9">>

\* The value of every decimal digit
DigitValue ==
    [c \in {DigitChars[i] : i \in DOMAIN DigitChars} |->
        (CHOOSE i \in DOMAIN DigitChars : DigitChars[i] = c) - 1]

IsDigit(c) == c \in DOMAIN DigitValue

\* str.replace("Z", "+00:00") on the zone suffix, from its i-th character
RECURSIVE ReplaceZFrom(_, _)
ReplaceZFrom(z, i) ==
    IF i > Len(z) THEN <<>>
    ELSE (IF z[i] = "Z" THEN Utc ELSE <<z[i]>>) \o ReplaceZFrom(z, i + 1)

ReplaceZ(z) == ReplaceZFrom(z, 1)

\* The digits of the offset after its sign, colons dropped; <<>> when the
\* text is none of HH, HHMM, HH:MM, HHMMSS, HH:MM:SS.
OffsetDigits(body) ==
    LET n == Len(body)
        AllDigits(t) == \A i \in DOMAIN t : IsDigit(t[i])
        Pair(i) == <<body[i], body[i + 1]>>
    IN  IF n \in {2, 4, 6} /\ AllDigits(body) THEN body
        ELSE IF n = 5 /\ body[3] = ":" /\ AllDigits(Pair(1) \o Pair(4))
             THEN Pair(1) \o Pair(4)
        ELSE IF n = 8 /\ body[3] = ":" /\ body[6] = ":"
                      /\ AllDigits(Pair(1) \o Pair(4) \o Pair(7))
             THEN Pair(1) \o Pair(4) \o Pair(7)
        ELSE <<>>

\* Two digits read as a number; 0 when the text ends before them
TwoDigits(ds, i) ==
    IF i + 1 > Len(ds) THEN 0 ELSE 10 * DigitValue[ds[i]] + DigitValue[ds[i + 1]]

\* UTC offset of a textual offset: ok = FALSE is ValueError (no offset text,
\* or an offset of 24 hours or more)
OffsetSeconds(z) ==
    IF z = <<>> \/ Head(z) \notin {"+", "-"}
    THEN [ok |-> FALSE, seconds |-> 0]
    ELSE CHOOSE offset \in
            { LET magnitude == TwoDigits(ds, 1) * SecondsPerHour
                                 + TwoDigits(ds, 3) * 60 + TwoDigits(ds, 5)
              IN  IF ds = <<>> \/ magnitude >= 24 * SecondsPerHour
                  THEN [ok |-> FALSE, seconds |-> 0]
                  ELSE [ok |-> TRUE,
                        seconds |-> IF Head(z) = "-" THEN 0 - magnitude ELSE magnitude]
              : ds \in {OffsetDigits(Tail(z))} } : TRUE

\* The parse: ok = FALSE is ValueError; aware = FALSE is a datetime without
\* tzinfo; utc is the instant of an aware datetime.
fromisoformat(v) ==
    IF v.form # "iso" THEN [ok |-> FALSE, aware |-> FALSE, utc |-> 0]
    ELSE CHOOSE parsed \in
            { IF z = <<>> THEN [ok |-> TRUE, aware |-> FALSE, utc |-> v.wall]
              ELSE IF ~OffsetSeconds(z).ok THEN [ok |-> FALSE, aware |-> FALSE, utc |-> 0]
              ELSE [ok |-> TRUE, aware |-> TRUE, utc |-> v.wall - OffsetSeconds(z).seconds]
              : z \in {ReplaceZ(v.tz)} } : TRUE

(***************************************************************************)
(* f"{seconds / 3600:.1f}": the duration in tenths of an hour, for a       *)
(* duration of at least one hour (the code formats durations above the     *)
(* idle threshold only).  seconds / 3600 is the double nearest to the      *)
(* quotient and the format rounds that double.  Off a tie the error of the *)
(* double does not matter.  On a tie, seconds = 360q + 180, the quotient   *)
(* is m/20 with m = 2q + 1, and the double is m * 2^n / 5 rounded to an    *)
(* integer, over 2^n, with n = 50 - floor(log2(m/20)): the remainder of    *)
(* m * 2^n modulo 5 tells whether the double lies below the tie (1, 2),    *)
(* above it (3, 4) or on it (0, where the format rounds half to even).     *)
(***************************************************************************)
RECURSIVE Log2Floor20(_, _)
\* the largest e >= start with 20 * 2^e <= m
Log2Floor20(m, e) == IF 20 * (2 ^ (e + 1)) > m THEN e ELSE Log2Floor20(m, e + 1)

TieRemainder(m) ==
    LET n == 50 - Log2Floor20(m, 0)
    IN  ((m % 5) * ((2 ^ (n % 4)) % 5)) % 5

FormatHours(seconds) ==
    LET q == seconds \div 360
        r == seconds % 360
    IN  IF r > 180 THEN q + 1
        ELSE IF r < 180 THEN q
        ELSE LET rem == TieRemainder(2 * q + 1) IN
             IF rem = 0 THEN (IF q % 2 = 0 THEN q ELSE q + 1)
             ELSE IF rem <= 2 THEN q
             ELSE q + 1

(***************************************************************************)
(* should_delete_instance(instance) with the clock reading `now`.          *)
(* outcome = "return": (stop, reason) is the returned pair;                *)
(* outcome = "raise":  the call raised (TypeError from subtracting a       *)
(*                     datetime without tzinfo from the aware `now`).      *)
(***************************************************************************)
Timeout == IDLE_TIMEOUT_HOURS * SecondsPerHour

Returned(stop, kind, tenths) ==
    [outcome |-> "return", stop |-> stop, reason |-> [kind |-> kind, tenths |-> tenths]]

Raised == [outcome |-> "raise", stop |-> FALSE, reason |-> [kind |-> "TypeError", tenths |-> 0]]

StillActive == Returned(FALSE, "Still active", 0)

\* lines 80-91: the created-at fallback
CreatedAtFallback(last_active_str, created_at_str, now) ==
    IF Truthy(created_at_str)
    THEN LET p == fromisoformat(created_at_str) IN
         IF ~p.ok THEN StillActive
         ELSE IF ~p.aware THEN Raised
         ELSE IF ~Truthy(last_active_str) /\ now - p.utc > Timeout
              THEN Returned(TRUE, "No activity tracking", FormatHours(now - p.utc))
              ELSE StillActive
    ELSE StillActive

should_delete_instance(instance, now) ==
    LET last_active_str == get_metadata_value(instance, "last-active-at")
        created_at_str  == get_metadata_value(instance, "created-at")
    IN  IF Truthy(last_active_str)
        THEN LET p == fromisoformat(last_active_str) IN
             IF ~p.ok THEN CreatedAtFallback(last_active_str, created_at_str, now)
             ELSE IF ~p.aware THEN Raised
             ELSE IF now - p.utc > Timeout
                  THEN Returned(TRUE, "Idle", FormatHours(now - p.utc))
                  ELSE CreatedAtFallback(last_active_str, created_at_str, now)
        ELSE CreatedAtFallback(last_active_str, created_at_str, now)

(***************************************************************************)
(* get_snapshot_name(username), on character sequences.  A character is a  *)
(* one-character string; the characters are those of Latin-1 together     *)
(* with U+0130 and U+0307, which are written by their code points.         *)
(***************************************************************************)
UpperCase ==
    <<"A", "B", "C", "D", "E", "F", "G", "H", "I", "J", "K", "L", "M",
      "N", "O", "P", "Q", "R", "S", "T", "U", "V", "W", "X", "Y", "Z",
      "À", "Á", "Â", "Ã", "Ä", "Å", "Æ", "Ç", "È", "É", "Ê", "Ë", "Ì",
      "Í", "Î", "Ï", "Ð", "Ñ", "Ò", "Ó", "Ô", "Õ", "Ö", "Ø", "Ù", "Ú",
      "Û", "Ü", "Ý", "Þ">>

LowerCase ==
    <<"a", "b", "c", "d", "e", "f", "g", "h", "i", "j", "k", "l", "m",
      "n", "o", "p", "q", "r", "s", "t", "u", "v", "w", "x", "y", "z",
      "à", "á", "â", "ã", "ä", "å", "æ", "ç", "è", "é", "ê", "ë", "ì",
      "í", "î", "ï", "ð", "ñ", "ò", "ó", "ô", "õ", "ö", "ø", "ù", "ú",
      "û", "ü", "ý", "þ">>

Digits == {"0", "1", "2", "3", "4", "5", "6", "7", "8", "9"}

\* Characters of Latin-1 that are alphanumeric and in neither table above
OtherAlnum == {"ª", "²", "³", "µ", "¹", "º", "¼", "½", "¾", "ß", "ÿ"}

\* U+0130, capital I with dot above, and U+0307, combining dot above
CapitalIDot == "U+0130"

CombiningDot == "U+0307"

Range(f) == {f[i] : i \in DOMAIN f}

\* The lowercase letter of every uppercase letter of Latin-1
LowerOf ==
    [c \in Range(UpperCase) |->
        LowerCase[CHOOSE i \in DOMAIN UpperCase : UpperCase[i] = c]]

\* str.lower on one character: the characters it becomes
Lower(c) ==
    IF c = CapitalIDot THEN <<"i", CombiningDot>>
    ELSE IF c \in DOMAIN LowerOf THEN <<LowerOf[c]>>
    ELSE <<c>>

\* str.lower on a string, from its i-th character
RECURSIVE StrLowerFrom(_, _)
StrLowerFrom(cs, i) ==
    IF i > Len(cs) THEN <<>> ELSE Lower(cs[i]) \o StrLowerFrom(cs, i + 1)

StrLower(cs) == StrLowerFrom(cs, 1)

\* The characters str.isalnum accepts
Alnum == Range(UpperCase) \cup Range(LowerCase) \cup Digits \cup OtherAlnum \cup {CapitalIDot}

\* str.isalnum on one character
IsAlnum(c) == c \in Alnum

\* str.replace(old, "-") for a one-character old
Replace(cs, old) == [i \in 1..Len(cs) |-> IF cs[i] = old THEN "-" ELSE cs[i]]

Sanitize(username) ==
    LET lowered == StrLower(username)
        replaced == Replace(Replace(lowered, "@"), ".")
    IN  [i \in 1..Len(replaced) |->
            IF IsAlnum(replaced[i]) \/ replaced[i] = "-" THEN replaced[i] ELSE "-"]

Prefix == <<"d", "e", "v", "-", "s", "n", "a", "p", "s", "h", "o", "t", "-">>

get_snapshot_name(username) == Prefix \o Sanitize(username)

(***************************************************************************)
(* wait_for_zone_operation / wait_for_global_operation: one iteration of   *)
(* the polling loop on what operations_client.get produced.                *)
(*   "RUNNING"     a status other than DONE                                *)
(*   "DONE"        status DONE, no error payload                           *)
(*   "DONE_ERROR"  status DONE with an error payload                       *)
(*   "RAISE"       the client constructor or the get call raised           *)
(* The step is "sleep" (poll again), "return" or "raise".                  *)
(***************************************************************************)
PollResults == {"RUNNING", "DONE", "DONE_ERROR", "RAISE"}

\* Variant: the waiter has an attempt bound of one; an operation that is
\* not DONE at the first poll is given up with an exception.
wait_for_zone_operation_GiveUp(result) ==
    CASE result = "RAISE" -> "raise"
      [] result = "DONE_ERROR" -> "raise"
      [] result = "DONE" -> "return"
      [] OTHER -> "raise"

\* Variant: the error payload of a finished operation is not looked at.
wait_for_zone_operation_NoErrorCheck(result) ==
    CASE result = "RAISE" -> "raise"
      [] result = "DONE_ERROR" -> "return"
      [] result = "DONE" -> "return"
      [] OTHER -> "sleep"

wait_for_zone_operation(result) ==
    CASE result = "RAISE" -> "raise"
      [] result = "DONE_ERROR" -> "raise"
      [] result = "DONE" -> "return"
      [] OTHER -> "sleep"

\* Variant: the status is read once; an operation that is not DONE yet is
\* returned like a finished one.
wait_for_global_operation_NoLoop(result) ==
    CASE result = "RAISE" -> "raise"
      [] result = "DONE_ERROR" -> "raise"
      [] result = "DONE" -> "return"
      [] OTHER -> "return"

\* Variant: the error payload of a finished operation is not looked at.
wait_for_global_operation_NoErrorCheck(result) ==
    CASE result = "RAISE" -> "raise"
      [] result = "DONE_ERROR" -> "return"
      [] result = "DONE" -> "return"
      [] OTHER -> "sleep"

wait_for_global_operation(result) ==
    CASE result = "RAISE" -> "raise"
      [] result = "DONE_ERROR" -> "raise"
      [] result = "DONE" -> "return"
      [] OTHER -> "sleep"

(***************************************************************************)
(* State of a run of cleanup_handler and of the remote control plane       *)
(***************************************************************************)
VARIABLES
    instances,   \* what the zone lists: sequence of [name, metadata]
    now,         \* the clock reading when the run starts
    out,         \* output of get_snapshot_name when it is applied alone
    snapshots,   \* remote: live snapshots, a set of [name, source_disk, attempt]
    live,        \* remote: names of the compute instances that exist
    pc,          \* position of the run
    idx,         \* index in `instances` of the instance being processed
    cls,         \* should_delete_instance's outcome for that instance
    username,    \* its username (characters)
    stopped,     \* the handler's `stopped` list
    kept,        \* the handler's `kept` list
    ret,         \* return value of the last stop_instance call
    result,      \* the summary the handler returns
    fault,       \* where an exception left the handler ("none" if it did not)
    att,         \* history: outcome of each step of the current stop attempt
    polled,      \* history: what the polls of the current wait observed, and
                 \* how the wait ended ("none" while it has not)
    calls,       \* history: the mutating remote calls issued, in order
    verdicts     \* history: per processed instance, the verdict and stop result

vars == <<instances, now, out, snapshots, live, pc, idx, cls, username, stopped, kept,
          ret, result, fault, att, polled, calls, verdicts>>

remote == <<snapshots, live>>

buckets == <<stopped, kept>>

(***************************************************************************)
(* Inputs                                                                  *)
(***************************************************************************)
Hours(h) == h * SecondsPerHour

Item(k, v) == [key |-> k, value |-> v]

\* instance.metadata.items holding the keys that are present
Items(la, ca, un) ==
    (IF la = None THEN <<>> ELSE <<Item("last-active-at", la)>>)
    \o (IF ca = None THEN <<>> ELSE <<Item("created-at", ca)>>)
    \o (IF un = None THEN <<>> ELSE <<Item("username", un)>>)

InstanceNames == <<"i1", "i2", "i3", "i4", "i5", "i6">>

\* The readings datetime.now(timezone.utc) can give when the clock stood at
\* t at the last step: the clock does not go back
Readings(t) == t..(Now0 + MaxElapsed)

\* (last-active-at, created-at) of the listed instances: idle for 13 hours;
\* exactly 12 hours idle at Now0 (kept at Now0, stopped one second later);
\* a last-active-at written without an offset.  The other shapes of the
\* two stamps are run through the classifier alone under SpecClassify.
RunActivity ==
    { <<Iso(Now0 - Hours(13), Zulu), None>>,
      <<Iso(Now0 - Hours(12), Utc), Iso(Now0 - Hours(30), Zulu)>>,
      <<Iso(Now0 - Hours(13), NoOffset), None>> }

\* usernames of the listed instances: absent, "A@b"
RunUsernames == {None, Text(<<"A", "@", "b">>)}

RunMetadata == {Items(a[1], a[2], u) : a \in RunActivity, u \in RunUsernames}

Listings ==
    UNION {[1..n -> RunMetadata] : n \in 0..MaxInstances}

Listed(ms) == [i \in 1..Len(ms) |-> [name |-> InstanceNames[i], metadata |-> ms[i]]]

\* Snapshots left by earlier runs: at most one per snapshot name; a run
\* starts with none, or with one for each user name of the listings.
PriorSnapshot(n) == [name |-> n, source_disk |-> "prev", attempt |-> 0]

PriorNames == {get_snapshot_name(Unknown), get_snapshot_name(<<"A", "@", "b">>)}

NoPolls == [results |-> {}, outcome |-> "none"]

NoAttempt == [delete_old |-> "none", insert |-> "none", delete_instance |-> "none"]

NoResult == [returned |-> FALSE, stopped |-> <<>>, kept |-> <<>>, summary |-> <<>>]

Init ==
    /\ instances \in {Listed(ms) : ms \in Listings}
    /\ snapshots \in {{PriorSnapshot(n) : n \in ns} : ns \in {{}, PriorNames}}
    /\ now = Now0
    /\ out = <<>>
    /\ live = {instances[i].name : i \in 1..Len(instances)}
    /\ pc = "list"
    /\ idx = 0
    /\ cls = StillActive
    /\ username = <<>>
    /\ stopped = <<>>
    /\ kept = <<>>
    /\ ret = FALSE
    /\ result = NoResult
    /\ fault = "none"
    /\ att = NoAttempt
    /\ polled = NoPolls
    /\ calls = <<>>
    /\ verdicts = <<>>

(***************************************************************************)
(* Helpers of the actions                                                  *)
(***************************************************************************)
\* The snapshot resource stop_instance builds (lines 126-133); `attempt` is
\* history: the index of the stop attempt that created it.
NewSnapshot(instance_name, user, attempt) ==
    [name |-> get_snapshot_name(user), source_disk |-> instance_name, attempt |-> attempt]

NameTaken(n) == \E s \in snapshots : s.name = n

WithoutSnapshot(n) == {s \in snapshots : s.name # n}

\* The remote states a poll with result r can leave, for an operation whose
\* completion turns `before` into `after`: completed when the poll saw
\* DONE, not (yet) when it saw RUNNING or DONE with an error.  A status call
\* that raised tells nothing about the operation, which is taken to have
\* completed by then or never.
Effect(r, before, after) ==
    CASE r = "DONE" -> {after}
      [] r = "RAISE" -> {before, after}
      [] OTHER -> {before}

\* `pattern in text` on character sequences
Contains(text, pattern) ==
    \E i \in 1..(Len(text) - Len(pattern) + 1) :
        SubSeq(text, i, i + Len(pattern) - 1) = pattern

\* "404" and "NOT_FOUND" (line 121)
Pattern404 == <<"4", "0", "4">>

PatternNotFound == <<"N", "O", "T", "_", "F", "O", "U", "N", "D">>

\* str(e) of the exceptions the delete-old step meets: of a call the
\* remote answered with 404, of a call that failed otherwise, with and
\* without "404" in its text, and of a waiter whose operation ended with
\* an error payload (lines 172, 191: "Operation failed: " and the payload).
Text404 == <<"4", "0", "4", " ", "x">>

Text503 == <<"5", "0", "3">>

Text503Id1404 == <<"5", "0", "3", " ", "i", "d", " ", "1", "4", "0", "4">>

OperationFailed == <<"O", "p", "e", "r", "a", "t", "i", "o", "n", " ", "f", "a", "i", "l", "e", "d", ":", " ">>

PayloadNotFound == <<"R", "E", "S", "O", "U", "R", "C", "E", "_", "N", "O", "T", "_", "F", "O", "U", "N", "D">>

PayloadQuota == <<"Q", "U", "O", "T", "A">>

\* The texts an outcome of the delete-old step can carry
ErrorTexts(outcome) ==
    CASE outcome = "not_found" -> {Text404}
      [] outcome = "op_error" ->
            {OperationFailed \o PayloadNotFound, OperationFailed \o PayloadQuota}
      [] OTHER -> {Text404, Text503, Text503Id1404}

\* Variant: only "not found" is swallowed; any other failure of the
\* delete-old step aborts the sequence.
DeleteOldExcept_Abort(text) ==
    LET found == Contains(text, Pattern404) \/ Contains(text, PatternNotFound)
    IN  [warn |-> ~found,
         next |-> IF found THEN "snapshots_insert" ELSE "stop_failed"]

\* The inner handler of the delete-old step (lines 119-122): whatever was
\* raised, the sequence goes on; a warning is printed unless the text of
\* the exception holds "404" or "NOT_FOUND".
DeleteOldExcept(text) ==
    [warn |-> ~Contains(text, Pattern404) /\ ~Contains(text, PatternNotFound),
     next |-> "snapshots_insert"]

\* Variant: a failed snapshot creation is swallowed like a failed delete of
\* the old snapshot, and the sequence goes on to the instance delete.
StopExcept_SwallowInsert(step) ==
    IF step = "insert" THEN "instances_delete" ELSE "stop_failed"

\* The outer handler of stop_instance (lines 153-155): an exception of
\* any step after the delete-old step is printed and becomes `return False`.
StopExcept(step) == "stop_failed"

\* Variant: the two counts are swapped.
Summary_Swapped(s, k) == <<"Stopped ", Len(k), ", kept ", Len(s), " environment(s)">>

\* The summary string (line 239), as its parts
Summary(s, k) == <<"Stopped ", Len(s), ", kept ", Len(k), " environment(s)">>

Entry(i) == [name |-> instances[i].name, username |-> username, reason |-> cls.reason]

Call(c, target) == [call |-> c, idx |-> idx, target |-> target]

\* The poll history after a poll produced r and the waiter took `step`
Polled(r, step) ==
    [results |-> polled.results \cup {r},
     outcome |-> IF step = "sleep" THEN "none" ELSE step]

\* Control leaves a step of stop_instance: to the next step, or through the
\* outer handler (lines 153-155) to `return False`.
Goto(next) ==
    IF next = "stop_failed"
    THEN pc' = "stop_returned" /\ ret' = FALSE
    ELSE pc' = next /\ UNCHANGED ret

(***************************************************************************)
(* cleanup_handler                                                         *)
(***************************************************************************)
\* line 209: get_dev_environments() returns the listing, or raises
get_dev_environments ==
    /\ pc = "list"
    /\ \E ok \in BOOLEAN :
          IF ok THEN pc' = "loop" /\ idx' = 1 /\ UNCHANGED fault
          ELSE pc' = "raised" /\ fault' = "list" /\ UNCHANGED idx
    /\ UNCHANGED <<instances, now, out, remote, cls, username, buckets, ret, result,
                   att, polled, calls, verdicts>>

\* Variant: the instance is stopped whatever the classifier said; a keep
\* verdict is still recorded in `kept`.
ClassifyInstance_StopAnyway ==
    /\ pc = "loop"
    /\ idx <= Len(instances)
    /\ \E reading \in Readings(now) :
          LET c == should_delete_instance(instances[idx], reading)
              u == get_metadata_value(instances[idx], "username")
              name == IF Truthy(u) THEN u.chars ELSE Unknown
          IN  /\ now' = reading
              /\ IF c.outcome = "raise"
                 THEN /\ pc' = "raised"
                      /\ fault' = "classify"
                      /\ UNCHANGED <<cls, username, idx, kept, verdicts>>
                 ELSE /\ cls' = c
                      /\ username' = name
                      /\ UNCHANGED fault
                      /\ pc' = "stop_instance"
                      /\ UNCHANGED idx
                      /\ IF c.stop
                         THEN UNCHANGED <<kept, verdicts>>
                         ELSE /\ kept' = Append(kept, [name |-> instances[idx].name,
                                                       username |-> name,
                                                       reason |-> c.reason])
                              /\ verdicts' = Append(verdicts,
                                     [name |-> instances[idx].name, verdict |-> "keep",
                                      ret |-> FALSE])
    /\ UNCHANGED <<instances, out, remote, stopped, ret, result, att, polled, calls>>

\* lines 215-219, 227-233: classify the next instance; keep it, or go on to
\* stop it.  An exception of should_delete_instance leaves the handler.
ClassifyInstance ==
    /\ pc = "loop"
    /\ idx <= Len(instances)
    /\ \E reading \in Readings(now) :
          LET c == should_delete_instance(instances[idx], reading)
              u == get_metadata_value(instances[idx], "username")
              name == IF Truthy(u) THEN u.chars ELSE Unknown
          IN  /\ now' = reading
              /\ IF c.outcome = "raise"
                 THEN /\ pc' = "raised"
                      /\ fault' = "classify"
                      /\ UNCHANGED <<cls, username, idx, kept, verdicts>>
                 ELSE /\ cls' = c
                      /\ username' = name
                      /\ UNCHANGED fault
                      /\ IF c.stop
                         THEN /\ pc' = "stop_instance"
                              /\ UNCHANGED <<idx, kept, verdicts>>
                         ELSE /\ kept' = Append(kept, [name |-> instances[idx].name,
                                                       username |-> name,
                                                       reason |-> c.reason])
                              /\ verdicts' = Append(verdicts,
                                     [name |-> instances[idx].name, verdict |-> "keep",
                                      ret |-> FALSE])
                              /\ idx' = idx + 1
                              /\ pc' = "loop"
    /\ UNCHANGED <<instances, out, remote, stopped, ret, result, att, polled, calls>>

\* Variant: a failed stop attempt is made again on the same instance.
StopReturned_Retry ==
    /\ pc = "stop_returned"
    /\ stopped' = IF ret THEN Append(stopped, Entry(idx)) ELSE stopped
    /\ verdicts' = Append(verdicts,
           [name |-> instances[idx].name, verdict |-> "stop", ret |-> ret])
    /\ idx' = IF ret THEN idx + 1 ELSE idx
    /\ pc' = IF ret THEN "loop" ELSE "stop_instance"
    /\ att' = NoAttempt
    /\ polled' = NoPolls
    /\ UNCHANGED <<instances, now, out, remote, cls, username, kept, ret, result, fault, calls>>

\* Variant: the instance is recorded in `stopped` whatever stop_instance
\* returned.
StopReturned_AlwaysRecorded ==
    /\ pc = "stop_returned"
    /\ stopped' = Append(stopped, Entry(idx))
    /\ verdicts' = Append(verdicts,
           [name |-> instances[idx].name, verdict |-> "stop", ret |-> ret])
    /\ idx' = idx + 1
    /\ pc' = "loop"
    /\ att' = NoAttempt
    /\ polled' = NoPolls
    /\ UNCHANGED <<instances, now, out, remote, cls, username, kept, ret, result, fault, calls>>

\* lines 221-226: stop_instance returned; record the instance in `stopped`
\* if it returned True, and go to the next instance.
StopReturned ==
    /\ pc = "stop_returned"
    /\ stopped' = IF ret THEN Append(stopped, Entry(idx)) ELSE stopped
    /\ verdicts' = Append(verdicts,
           [name |-> instances[idx].name, verdict |-> "stop", ret |-> ret])
    /\ idx' = idx + 1
    /\ pc' = "loop"
    /\ att' = NoAttempt
    /\ polled' = NoPolls
    /\ UNCHANGED <<instances, now, out, remote, cls, username, kept, ret, result, fault, calls>>

\* lines 235-244: the loop is over; build and return the summary
ReturnSummary ==
    /\ pc = "loop"
    /\ idx > Len(instances)
    /\ result' = [returned |-> TRUE, stopped |-> stopped, kept |-> kept,
                  summary |-> Summary(stopped, kept)]
    /\ pc' = "done"
    /\ UNCHANGED <<instances, now, out, remote, idx, cls, username, buckets, ret, fault,
                   att, polled, calls, verdicts>>

(***************************************************************************)
(* stop_instance                                                           *)
(***************************************************************************)
\* lines 106-108: the two clients are built outside the try block
StopEntry ==
    /\ pc = "stop_instance"
    /\ \E ok \in BOOLEAN :
          IF ok THEN pc' = "snapshots_delete" /\ UNCHANGED fault
          ELSE pc' = "raised" /\ fault' = "stop"
    /\ att' = NoAttempt
    /\ polled' = NoPolls
    /\ UNCHANGED <<instances, now, out, remote, idx, cls, username, buckets, ret, result,
                   calls, verdicts>>

\* Variant: the delete of the old snapshot is not waited for.
SnapshotsDelete_NoWait ==
    /\ pc = "snapshots_delete"
    /\ calls' = Append(calls, Call("snapshots.delete", get_snapshot_name(username)))
    /\ \E outcome \in {"op", "not_found", "error"} :
          /\ outcome = "op" => NameTaken(get_snapshot_name(username))
          /\ outcome = "not_found" => ~NameTaken(get_snapshot_name(username))
          /\ IF outcome = "op"
             THEN /\ pc' = "snapshots_insert"
                  /\ att' = [att EXCEPT !.delete_old = "pending"]
                  /\ UNCHANGED ret
             ELSE /\ att' = [att EXCEPT !.delete_old = outcome]
                  /\ \E text \in ErrorTexts(outcome) : Goto(DeleteOldExcept(text).next)
    /\ polled' = NoPolls
    /\ UNCHANGED <<instances, now, out, remote, idx, cls, username, buckets, result, fault,
                   verdicts>>

\* lines 112-117: snapshots_client.delete of the old snapshot.  The remote
\* answers "not found" when no snapshot has the name, accepts the request
\* when one has, and may fail otherwise in both cases.
SnapshotsDelete ==
    /\ pc = "snapshots_delete"
    /\ calls' = Append(calls, Call("snapshots.delete", get_snapshot_name(username)))
    /\ \E outcome \in {"op", "not_found", "error"} :
          /\ outcome = "op" => NameTaken(get_snapshot_name(username))
          /\ outcome = "not_found" => ~NameTaken(get_snapshot_name(username))
          /\ IF outcome = "op"
             THEN /\ pc' = "wait_delete_old"
                  /\ att' = [att EXCEPT !.delete_old = "pending"]
                  /\ UNCHANGED ret
             ELSE /\ att' = [att EXCEPT !.delete_old = outcome]
                  /\ \E text \in ErrorTexts(outcome) : Goto(DeleteOldExcept(text).next)
    /\ polled' = NoPolls
    /\ UNCHANGED <<instances, now, out, remote, idx, cls, username, buckets, result, fault,
                   verdicts>>

\* line 118: wait_for_global_operation on the delete of the old snapshot
WaitDeleteOld ==
    /\ pc = "wait_delete_old"
    /\ \E r \in PollResults :
          LET step == wait_for_global_operation(r)
              seen == CASE r = "DONE" -> "op_ok"
                        [] r = "DONE_ERROR" -> "op_error"
                        [] OTHER -> "poll_error"
          IN  /\ step = "sleep" => now + SleepSeconds <= Now0 + MaxElapsed
              /\ now' = IF step = "sleep" THEN now + SleepSeconds ELSE now
              /\ polled' = Polled(r, step)
              /\ snapshots' \in Effect(r, snapshots, WithoutSnapshot(get_snapshot_name(username)))
              /\ CASE step = "sleep" -> UNCHANGED <<pc, ret, att>>
                   [] step = "return" ->
                        /\ att' = [att EXCEPT !.delete_old = seen]
                        /\ Goto("snapshots_insert")
                   [] step = "raise" ->
                        /\ att' = [att EXCEPT !.delete_old = seen]
                        /\ \E text \in ErrorTexts(seen) : Goto(DeleteOldExcept(text).next)
    /\ UNCHANGED <<instances, out, live, idx, cls, username, buckets, result, fault,
                   calls, verdicts>>

\* lines 124-138: snapshots_client.insert of the new snapshot
SnapshotsInsert ==
    /\ pc = "snapshots_insert"
    /\ calls' = Append(calls, Call("snapshots.insert", get_snapshot_name(username)))
    /\ \E outcome \in {"op", "error"} :
          IF outcome = "op"
          THEN /\ pc' = "wait_insert"
               /\ att' = [att EXCEPT !.insert = "pending"]
               /\ UNCHANGED ret
          ELSE /\ att' = [att EXCEPT !.insert = "error"]
               /\ Goto(StopExcept("insert"))
    /\ polled' = NoPolls
    /\ UNCHANGED <<instances, now, out, remote, idx, cls, username, buckets, result, fault,
                   verdicts>>

\* line 139: wait_for_global_operation on the insert.  The remote rejects
\* an insert whose name is taken: its operation does not end DONE without
\* error.
WaitInsert ==
    /\ pc = "wait_insert"
    /\ \E r \in PollResults :
          LET step == wait_for_global_operation(r)
              seen == CASE r = "DONE" -> "op_ok"
                        [] r = "DONE_ERROR" -> "op_error"
                        [] OTHER -> "poll_error"
          IN  /\ r = "DONE" => ~NameTaken(get_snapshot_name(username))
              /\ step = "sleep" => now + SleepSeconds <= Now0 + MaxElapsed
              /\ now' = IF step = "sleep" THEN now + SleepSeconds ELSE now
              /\ polled' = Polled(r, step)
              /\ snapshots' \in
                    Effect(r, snapshots,
                           IF NameTaken(get_snapshot_name(username)) THEN snapshots
                           ELSE snapshots \cup
                                {NewSnapshot(instances[idx].name, username, idx)})
              /\ CASE step = "sleep" -> UNCHANGED <<pc, ret, att>>
                   [] step = "return" ->
                        /\ att' = [att EXCEPT !.insert = seen]
                        /\ Goto("instances_delete")
                   [] step = "raise" ->
                        /\ att' = [att EXCEPT !.insert = seen]
                        /\ Goto(StopExcept("insert"))
    /\ UNCHANGED <<instances, out, live, idx, cls, username, buckets, result, fault,
                   calls, verdicts>>

\* Variant: when the instance delete is rejected, the snapshot created by
\* the attempt is deleted again.
InstancesDelete_Rollback ==
    /\ pc = "instances_delete"
    /\ \E outcome \in {"op", "error"} :
          IF outcome = "op"
          THEN /\ pc' = "wait_instance"
               /\ att' = [att EXCEPT !.delete_instance = "pending"]
               /\ calls' = Append(calls, Call("instances.delete", instances[idx].name))
               /\ UNCHANGED <<ret, snapshots>>
          ELSE /\ att' = [att EXCEPT !.delete_instance = "error"]
               /\ calls' = calls \o <<Call("instances.delete", instances[idx].name),
                                      Call("snapshots.delete", get_snapshot_name(username))>>
               /\ snapshots' = {s \in snapshots : s.name # get_snapshot_name(username)}
               /\ Goto(StopExcept("delete_instance"))
    /\ polled' = NoPolls
    /\ UNCHANGED <<instances, now, out, live, idx, cls, username, buckets, result, fault,
                   verdicts>>

\* lines 142-148: instances_client.delete
InstancesDelete ==
    /\ pc = "instances_delete"
    /\ calls' = Append(calls, Call("instances.delete", instances[idx].name))
    /\ \E outcome \in {"op", "error"} :
          IF outcome = "op"
          THEN /\ pc' = "wait_instance"
               /\ att' = [att EXCEPT !.delete_instance = "pending"]
               /\ UNCHANGED ret
          ELSE /\ att' = [att EXCEPT !.delete_instance = "error"]
               /\ Goto(StopExcept("delete_instance"))
    /\ polled' = NoPolls
    /\ UNCHANGED <<instances, now, out, remote, idx, cls, username, buckets, result, fault,
                   verdicts>>

\* lines 149-152: wait_for_zone_operation on the instance delete, then
\* `return True`
WaitInstance ==
    /\ pc = "wait_instance"
    /\ \E r \in PollResults :
          LET step == wait_for_zone_operation(r)
              seen == CASE r = "DONE" -> "op_ok"
                        [] r = "DONE_ERROR" -> "op_error"
                        [] OTHER -> "poll_error"
          IN  /\ step = "sleep" => now + SleepSeconds <= Now0 + MaxElapsed
              /\ now' = IF step = "sleep" THEN now + SleepSeconds ELSE now
              /\ polled' = Polled(r, step)
              /\ live' \in Effect(r, live, live \ {instances[idx].name})
              /\ CASE step = "sleep" -> UNCHANGED <<pc, ret, att>>
                   [] step = "return" ->
                        /\ att' = [att EXCEPT !.delete_instance = seen]
                        /\ pc' = "stop_returned"
                        /\ ret' = TRUE
                   [] step = "raise" ->
                        /\ att' = [att EXCEPT !.delete_instance = seen]
                        /\ Goto(StopExcept("delete_instance"))
    /\ UNCHANGED <<instances, out, snapshots, idx, cls, username, buckets, result, fault,
                   calls, verdicts>>

Next ==
    \/ get_dev_environments
    \/ ClassifyInstance
    \/ StopEntry
    \/ SnapshotsDelete
    \/ WaitDeleteOld
    \/ SnapshotsInsert
    \/ WaitInsert
    \/ InstancesDelete
    \/ WaitInstance
    \/ StopReturned
    \/ ReturnSummary

Spec == Init /\ [][Next]_vars

Waiting == pc \in {"wait_delete_old", "wait_insert", "wait_instance"}

\* Runs in which an operation may stay RUNNING: over listings of an idle
\* instance, an instance that reaches the idle threshold during the run and
\* an instance whose last-active-at has no offset.  The program takes its
\* own next step whenever it has one; nothing is assumed about when, or
\* whether, a polled operation leaves the status RUNNING, so a run may stay
\* in a wait for ever.  The polls of a wait are followed as far as the
\* clock is tracked (MaxElapsed seconds).
LiveMetadata ==
    { Items(Iso(Now0 - Hours(13), Zulu), None, Text(<<"A", "@", "b">>)),
      Items(Iso(Now0 - Hours(12), Utc), Iso(Now0 - Hours(30), Zulu), Text(<<"A", "@", "b">>)),
      Items(Iso(Now0 - Hours(13), NoOffset), None, None) }

InitLive ==
    /\ Init
    /\ Len(instances) <= MaxLiveInstances
    /\ \A i \in 1..Len(instances) : instances[i].metadata \in LiveMetadata

SpecLive == InitLive /\ [][Next]_vars /\ WF_vars(~Waiting /\ Next)

TypeOK == pc \in {"name", "named", "classify", "classified", "list", "loop", "stop_instance", "snapshots_delete", "wait_delete_old",
                  "snapshots_insert", "wait_insert", "instances_delete", "wait_instance",
                  "stop_returned", "done", "raised"}

(***************************************************************************)
(* The classifier alone: one instance and one clock reading are drawn, and *)
(* should_delete_instance is applied to them.                              *)
(***************************************************************************)
\* Values of last-active-at and of created-at: absent, empty, malformed,
\* 13 hours old, exactly 12 hours old at Now0, 11 hours old written with
\* an offset of +08:00, one second past 12 hours, 13 hours old without
\* offset, 11 hours old written with -08:00, 13 hours old written with
\* +05:30, and a timestamp with the offset +24:00, which does not parse.
StampValues ==
    { None,
      Text(<<>>),
      Text(NotADate),
      Iso(Now0 - Hours(13), Zulu),
      Iso(Now0 - Hours(12), Utc),
      Iso(Now0 - Hours(11) + Hours(8), Plus8),
      Iso(Now0 - Hours(12) - 1, Zulu),
      Iso(Now0 - Hours(13), NoOffset),
      Iso(Now0 - Hours(11) - Hours(8), Minus8),
      Iso(Now0 - Hours(13) + Hours(5) + 1800, Plus0530),
      Iso(Now0 - Hours(13), Plus24) }

\* A key given twice: the first item is the one read
RepeatedKey ==
    { <<Item("last-active-at", Text(NotADate)),
        Item("last-active-at", Iso(Now0 - Hours(13), Zulu)),
        Item("created-at", Iso(Now0 - Hours(13), Zulu))>>,
      <<Item("created-at", Iso(Now0 - Hours(11), Zulu)),
        Item("created-at", Iso(Now0 - Hours(13), Zulu))>> }

ClassifyMetadata ==
    {Items(la, ca, None) : la \in StampValues, ca \in StampValues} \cup RepeatedKey

InitClassify ==
    /\ instances \in {<<[name |-> InstanceNames[1], metadata |-> m]>> : m \in ClassifyMetadata}
    /\ now \in {Now0, Now0 + 1}
    /\ out = <<>>
    /\ snapshots = {}
    /\ live = {InstanceNames[1]}
    /\ pc = "classify"
    /\ idx = 1
    /\ cls = StillActive
    /\ username = <<>>
    /\ stopped = <<>>
    /\ kept = <<>>
    /\ ret = FALSE
    /\ result = NoResult
    /\ fault = "none"
    /\ att = NoAttempt
    /\ polled = NoPolls
    /\ calls = <<>>
    /\ verdicts = <<>>

\* lines 57-91: one call of should_delete_instance
Classify ==
    /\ pc = "classify"
    /\ cls' = should_delete_instance(instances[1], now)
    /\ pc' = "classified"
    /\ UNCHANGED <<instances, now, out, remote, idx, username, buckets, ret, result,
                   fault, att, polled, calls, verdicts>>

NextClassify == Classify

SpecClassify == InitClassify /\ [][NextClassify]_vars

(***************************************************************************)
(* Properties                                                              *)
(***************************************************************************)
InAttempt == pc \in {"snapshots_delete", "wait_delete_old", "snapshots_insert",
                     "wait_insert", "instances_delete", "wait_instance", "stop_returned"}

snapshot_name == get_snapshot_name(username)

\* The mutating calls issued by the stop attempt on instance number i
CallsOf(i, c) == {k \in DOMAIN calls : calls[k].idx = i /\ calls[k].call = c}

\* C1: in a stop attempt the instance-delete call is issued only after the
\* snapshot-create operation of the same attempt was seen DONE without
\* error; after a failed snapshot creation the attempt issues no
\* instance-delete call.
C1_DeleteOnlyAfterSnapshot ==
    InAttempt =>
        /\ (pc = "instances_delete" \/ att.delete_instance # "none"
              \/ CallsOf(idx, "instances.delete") # {})
             => att.insert = "op_ok"
        /\ att.insert \in {"error", "op_error", "poll_error"}
             => /\ CallsOf(idx, "instances.delete") = {}
                /\ instances[idx].name \in live

C1_Witness ==
    /\ pc = "wait_instance"
    /\ att.insert = "op_ok"
    /\ CallsOf(idx, "instances.delete") # {}

\* C2 (as claimed): when the handler returns, every instance recorded in
\* `stopped` still has a live snapshot taken from its disk.
C2_StoppedHaveSnapshot ==
    pc = "done" =>
        \A k \in DOMAIN stopped :
            \E s \in snapshots : s.source_disk = stopped[k].name

\* C4 (as claimed): no failure while classifying or stopping an instance
\* leaves the handler; the run goes on to the remaining instances.
C4_FailuresContained == ~(pc = "raised" /\ fault \in {"classify", "stop"})

\* C5 (as claimed): stop_instance never raises to its caller, whatever
\* fault occurs during the call, client construction included.
C5_StopNeverRaises == fault # "stop"

\* C6: stop_instance returns True exactly when the snapshot-create and the
\* instance-delete operations of the attempt were both seen DONE without
\* error, whatever the delete-old step did.
C6_ReturnValue ==
    pc = "stop_returned" =>
        (ret <=> (att.insert = "op_ok" /\ att.delete_instance = "op_ok"))

C6_Witness ==
    /\ pc = "stop_returned"
    /\ ret
    /\ att.delete_old = "error"

\* C7: whatever the outcome of the delete-old step (not found, another
\* error of the call, an operation that ends with an error, a failed
\* poll), the sequence goes on and the snapshot-create call is issued.
C7_DeleteOldBestEffort ==
    (InAttempt /\ att.delete_old \notin {"none", "pending"}) =>
        \/ pc = "snapshots_insert"
        \/ /\ att.insert # "none"
           /\ CallsOf(idx, "snapshots.insert") # {}

C7_Witness ==
    /\ InAttempt
    /\ att.delete_old = "op_error"
    /\ CallsOf(idx, "snapshots.insert") # {}

\* C8: at most one snapshot lives under a name, and when stop_instance
\* returns True the snapshot under the user's name is the one this attempt
\* created from this instance's disk.
C8_OneFreshSnapshot ==
    /\ \A s1 \in snapshots : \A s2 \in snapshots : s1.name = s2.name => s1 = s2
    /\ (pc = "stop_returned" /\ ret) =>
          /\ \E s \in snapshots : s.name = snapshot_name
          /\ \A s \in snapshots :
                s.name = snapshot_name
                   => s.source_disk = instances[idx].name /\ s.attempt = idx

C8_Witness ==
    /\ pc = "stop_returned"
    /\ ret
    /\ att.delete_old = "op_ok"
    /\ \E s \in snapshots : s.name = snapshot_name /\ s.attempt = idx

\* Number of entries of a bucket that name the instance
Occurrences(bucket, name) == Cardinality({k \in DOMAIN bucket : bucket[k].name = name})

\* C9: an instance is in `stopped` iff it was classified stop and its
\* stop_instance call returned True, in `kept` iff it was classified keep;
\* a failed stop attempt puts it in neither; no instance is listed twice.
C9_Buckets ==
    \A i \in DOMAIN instances :
        LET name == instances[i].name
            vs == {k \in DOMAIN verdicts : verdicts[k].name = name}
        IN  /\ Occurrences(stopped, name) + Occurrences(kept, name) <= 1
            /\ Occurrences(stopped, name) = 1
                 <=> \E k \in vs : verdicts[k].verdict = "stop" /\ verdicts[k].ret
            /\ Occurrences(kept, name) = 1
                 <=> \E k \in vs : verdicts[k].verdict = "keep"
            /\ (\E k \in vs : verdicts[k].verdict = "stop" /\ ~verdicts[k].ret)
                 => Occurrences(stopped, name) + Occurrences(kept, name) = 0

C9_Witness ==
    /\ pc = "done"
    /\ Len(stopped) = 1
    /\ Len(kept) = 0
    /\ Len(instances) = 2
    /\ \E k \in DOMAIN verdicts : verdicts[k].verdict = "stop" /\ ~verdicts[k].ret

FailedStops == {k \in DOMAIN verdicts : verdicts[k].verdict = "stop" /\ ~verdicts[k].ret}

\* C10: the counts of the summary string are the lengths of `stopped` and
\* `kept`, and the two lengths add up to the number of listed instances
\* minus the number of failed stop attempts.
C10_SummaryCounts ==
    pc = "done" =>
        /\ result.returned
        /\ result.summary = <<"Stopped ", Len(result.stopped), ", kept ",
                              Len(result.kept), " environment(s)">>
        /\ result.stopped = stopped /\ result.kept = kept
        /\ Len(stopped) + Len(kept) = Len(instances) - Cardinality(FailedStops)

C10_Witness ==
    /\ pc = "done"
    /\ Len(instances) = 2
    /\ result.summary = <<"Stopped ", 2, ", kept ", 0, " environment(s)">>
    /\ Len(result.stopped) = 2
    /\ Len(result.kept) = 0

(***************************************************************************)
(* Properties of the classifier (SpecClassify)                             *)
(***************************************************************************)
\* The instance with every item of the key removed
Without(instance, key) ==
    [instance EXCEPT !.metadata = SelectSeq(instance.metadata, LAMBDA it : it.key # key)]

HasKey(instance, key) == \E k \in DOMAIN instance.metadata : instance.metadata[k].key = key

\* last-active-at is present and is no timestamp
MalformedLastActive(instance) ==
    /\ HasKey(instance, "last-active-at")
    /\ ~fromisoformat(get_metadata_value(instance, "last-active-at")).ok

SameVerdict(a, b) ==
    /\ a.outcome = b.outcome
    /\ a.stop = b.stop
    /\ a.reason.kind = b.reason.kind

\* C3 (as claimed): with a malformed last-active-at the classifier answers
\* as it does for the same instance without last-active-at: the same
\* outcome, the same decision and the same kind of reason.
C3_MalformedAsAbsent ==
    (pc = "classified" /\ MalformedLastActive(instances[1])) =>
        SameVerdict(cls, should_delete_instance(Without(instances[1], "last-active-at"), now))

\* last-active-at is a non-empty string that fromisoformat accepts
ParseableLastActive(instance) ==
    LET v == get_metadata_value(instance, "last-active-at")
    IN  Truthy(v) /\ fromisoformat(v).ok

\* the instant a metadata value names is more than the threshold before t
OlderThanTimeout(v, t) == t - fromisoformat(v).utc > Timeout

\* C11 (as claimed): with a parseable last-active-at the classifier returns
\* stop = TRUE iff now - lastActive is strictly above the idle threshold,
\* and (FALSE, "Still active") at or below it, whatever created-at holds.
C11_LastActiveDecides ==
    (pc = "classified" /\ ParseableLastActive(instances[1])) =>
        LET idle == OlderThanTimeout(get_metadata_value(instances[1], "last-active-at"), now)
        IN  /\ cls.outcome = "return"
            /\ cls.stop <=> idle
            /\ ~idle => cls = StillActive

\* C12 (as claimed): without last-active-at the classifier returns
\* (TRUE, "No activity tracking") iff created-at is present, parseable and
\* strictly older than the threshold, and (FALSE, "Still active") when
\* created-at is absent or unparseable; a malformed last-active-at with no
\* created-at keeps the instance.
C12_CreatedAtDecides ==
    pc = "classified" =>
        LET ca == get_metadata_value(instances[1], "created-at")
            old == Truthy(ca) /\ fromisoformat(ca).ok /\ OlderThanTimeout(ca, now)
        IN  /\ ~HasKey(instances[1], "last-active-at") =>
                /\ cls.outcome = "return"
                /\ cls.stop <=> old
                /\ cls.stop => cls.reason.kind = "No activity tracking"
                /\ ~(Truthy(ca) /\ fromisoformat(ca).ok) => cls = StillActive
            /\ (MalformedLastActive(instances[1]) /\ ~HasKey(instances[1], "created-at"))
                  => cls = StillActive

(***************************************************************************)
(* Properties of the waiters and of the order of the remote calls          *)
(***************************************************************************)
\* C13 (as claimed): a waiter returns only after a poll saw DONE without
\* error, fails exactly when a poll saw DONE with an error, and neither
\* returns nor fails while every poll so far saw a status other than DONE.
C13_OnlyDoneExits ==
    /\ polled.outcome = "return" => "DONE" \in polled.results
    /\ polled.outcome = "raise" <=> "DONE_ERROR" \in polled.results
    /\ polled.results \subseteq {"RUNNING"} => polled.outcome = "none"

\* C13 (amended): a waiter returns only after a poll saw DONE without
\* error; it fails when a poll saw DONE with an error, and also when the
\* status call itself raised; while every poll so far returned a status
\* other than DONE it neither returns nor fails and stays in its loop.
C13_WaiterOutcome ==
    /\ polled.outcome = "return" => polled.results \ {"RUNNING"} = {"DONE"}
    /\ polled.outcome = "raise" =>
          \/ polled.results \ {"RUNNING"} = {"DONE_ERROR"}
          \/ polled.results \ {"RUNNING"} = {"RAISE"}
    /\ "DONE_ERROR" \in polled.results => polled.outcome = "raise"
    /\ "RAISE" \in polled.results => polled.outcome = "raise"
    /\ "DONE" \in polled.results => polled.outcome = "return"
    /\ polled.results \subseteq {"RUNNING"} => polled.outcome = "none"
    /\ (Waiting /\ polled.results # {}) =>
          polled.results = {"RUNNING"} /\ polled.outcome = "none"
    /\ (~Waiting /\ polled.results # {}) => polled.outcome # "none"

C13_Witness ==
    /\ pc = "stop_returned"
    /\ polled.outcome = "raise"
    /\ polled.results = {"RUNNING", "DONE_ERROR"}
    /\ att.delete_instance = "op_error"

(***************************************************************************)
(* Termination (SpecLive)                                                  *)
(***************************************************************************)
\* Every wait for an operation eventually ends: a poll sees the operation
\* DONE, with or without an error, or the status call raises
OperationsSettle == []<>~Waiting

Ended == pc \in {"done", "raised"}

\* C14 (as claimed): when every remote operation eventually reaches DONE,
\* cleanup_handler eventually terminates and returns its summary.
C14_ReturnsSummary == OperationsSettle => <>(pc = "done" /\ result.returned)

\* The clock is tracked over one more sleep
SleepTracked == now + SleepSeconds <= Now0 + MaxElapsed

\* C14 (amended): when every wait for an operation eventually ends, the
\* run eventually ends, either returning its summary or with an exception
\* that leaves the handler, and a run that has ended stays ended.  The
\* waiters have no timeout or attempt bound: in a waiter, whatever the
\* polls made so far, another poll that sleeps is possible (as far as the
\* clock is tracked), a poll that does not end the wait advances the clock
\* by the sleep and processes nothing, the index of the instance being
\* processed never goes back, and a run that stays in a wait for ever
\* never ends (so it never reaches a later instance).
C14_Terminates ==
    /\ OperationsSettle => <>Ended
    /\ [][Ended => (vars' = vars)]_vars
    /\ []((Waiting /\ SleepTracked) =>
            ENABLED (Next /\ pc' = pc /\ polled'.outcome = "none"))
    /\ [][(Waiting /\ Waiting') =>
              /\ pc' = pc /\ idx' = idx /\ calls' = calls /\ verdicts' = verdicts
              /\ stopped' = stopped /\ kept' = kept /\ result' = result
              /\ now' = now + SleepSeconds]_vars
    /\ <>[]Waiting => []~Ended
    /\ [][idx' >= idx]_vars

\* After two polls that slept, the run is still in the wait of its first
\* instance while a second instance is listed
C14_Witness ==
    /\ Waiting
    /\ now >= Now0 + 2 * SleepSeconds
    /\ polled = [results |-> {"RUNNING"}, outcome |-> "none"]
    /\ idx = 1
    /\ Len(instances) = 2

(***************************************************************************)
(* get_snapshot_name alone: a username is drawn and the function is        *)
(* applied to it and to its own output.                                    *)
(***************************************************************************)
NameAlphabet == {"A", "a", "1", "@", ".", "-", "_", "É", "²", CapitalIDot}

\* "Alice@Example.com"
AliceExample ==
    <<"A", "l", "i", "c", "e", "@", "E", "x", "a", "m", "p", "l", "e",
      ".", "c", "o", "m">>

\* "dev-snapshot-alice-example-com"
NameInputs ==
    UNION {[1..n -> NameAlphabet] : n \in 0..MaxNameLen} \cup {AliceExample}

InitName ==
    /\ username \in NameInputs
    /\ instances = <<>>
    /\ now = Now0
    /\ out = <<>>
    /\ snapshots = {}
    /\ live = {}
    /\ pc = "name"
    /\ idx = 0
    /\ cls = StillActive
    /\ stopped = <<>>
    /\ kept = <<>>
    /\ ret = FALSE
    /\ result = NoResult
    /\ fault = "none"
    /\ att = NoAttempt
    /\ polled = NoPolls
    /\ calls = <<>>
    /\ verdicts = <<>>

\* lines 94-98: get_snapshot_name(username), then on what it returned
ApplyName ==
    /\ pc = "name"
    /\ out' = <<get_snapshot_name(username), get_snapshot_name(get_snapshot_name(username))>>
    /\ pc' = "named"
    /\ UNCHANGED <<instances, now, remote, idx, cls, username, buckets, ret, result,
                   fault, att, polled, calls, verdicts>>

NextName == ApplyName

SpecName == InitName /\ [][NextName]_vars

\* C15 (as claimed): applying get_snapshot_name to its own output yields
\* the same string.
C15_Idempotent == pc = "named" => out[2] = out[1]

(***************************************************************************)
(* Order and number of the remote calls (Spec)                             *)
(***************************************************************************)
CallRank(c) ==
    CASE c = "snapshots.delete" -> 1
      [] c = "snapshots.insert" -> 2
      [] OTHER -> 3

\* The calls of one attempt come in the order delete-old, create,
\* delete-instance: the log of calls is a run of blocks, one per attempt in
\* the order of the listing, each block a delete-old, then a create, then
\* possibly a delete-instance.
CallsInOrder ==
    \A k \in DOMAIN calls :
        IF CallRank(calls[k].call) = 1
        THEN k > 1 => calls[k - 1].idx < calls[k].idx
        ELSE /\ k > 1
             /\ calls[k - 1].idx = calls[k].idx
             /\ CallRank(calls[k - 1].call) = CallRank(calls[k].call) - 1

\* C16 (as claimed): the calls of an attempt are issued in the order
\* delete-old, create, delete-instance; the create call is issued only
\* after the delete of the old snapshot was rejected or its operation
\* reached DONE, and the instance delete never while the create is pending.
C16_NoCallWhilePending ==
    /\ CallsInOrder
    /\ (InAttempt /\ CallsOf(idx, "snapshots.insert") # {})
          => att.delete_old \in {"not_found", "error", "op_ok", "op_error"}
    /\ (InAttempt /\ CallsOf(idx, "instances.delete") # {}) => att.insert = "op_ok"

\* C16 (amended): as claimed, except that the create call is also issued
\* after a status call on the delete operation raised, that is while the
\* delete operation may still be pending.
C16_StepOrder ==
    /\ CallsInOrder
    /\ (InAttempt /\ CallsOf(idx, "snapshots.insert") # {})
          => att.delete_old \in {"not_found", "error", "op_ok", "op_error", "poll_error"}
    /\ (InAttempt /\ att.delete_old = "poll_error")
          => "RAISE" \in polled.results \/ CallsOf(idx, "snapshots.insert") # {}
    /\ (InAttempt /\ CallsOf(idx, "instances.delete") # {}) => att.insert = "op_ok"
    /\ pc = "wait_delete_old" => CallsOf(idx, "snapshots.insert") = {}
    /\ pc = "wait_insert" => CallsOf(idx, "instances.delete") = {}

C16_Witness ==
    /\ pc = "wait_insert"
    /\ att.delete_old = "poll_error"
    /\ polled.results = {"RUNNING"}
    /\ Cardinality({k \in DOMAIN calls : calls[k].idx = idx}) = 2
    /\ \E k \in DOMAIN calls : calls[k].idx < idx /\ calls[k].call = "instances.delete"

\* The attempt created its snapshot and then failed to delete the instance
LateFailure ==
    /\ pc = "stop_returned"
    /\ att.insert = "op_ok"
    /\ att.delete_instance \in {"error", "op_error", "poll_error"}

\* C17: after a successful snapshot creation, a failure of the instance
\* delete call or of its operation makes stop_instance return False; the
\* snapshot created by the attempt is retained, no snapshot-delete call
\* follows the create, and the handler puts the instance in neither list.
C17_NoRollback ==
    [][LateFailure =>
          /\ ~ret
          /\ \E s \in snapshots :
                /\ s.name = get_snapshot_name(username)
                /\ s.source_disk = instances[idx].name
                /\ s.attempt = idx
          /\ \A k \in CallsOf(idx, "snapshots.delete") :
                \A j \in CallsOf(idx, "snapshots.insert") : k < j
          /\ snapshots' = snapshots
          /\ calls' = calls
          /\ Occurrences(stopped', instances[idx].name) = 0
          /\ Occurrences(kept', instances[idx].name) = 0]_vars

C17_Witness ==
    /\ LateFailure
    /\ att.delete_instance = "op_error"
    /\ instances[idx].name \in live

\* C18: for each listed instance a run issues at most one delete of the old
\* snapshot, at most one snapshot create and at most one instance delete,
\* and makes at most one stop attempt, whatever the calls answer.
C18_NoRetry ==
    /\ \A k2 \in DOMAIN calls : \A k1 \in 1..(k2 - 1) :
          calls[k1].idx = calls[k2].idx => calls[k1].call # calls[k2].call
    /\ \A k2 \in DOMAIN verdicts : \A k1 \in 1..(k2 - 1) :
          verdicts[k1].name # verdicts[k2].name
    /\ \A k \in DOMAIN calls : calls[k].idx <= idx

C18_Witness ==
    /\ pc = "done"
    /\ Len(instances) = 2
    /\ \A k \in DOMAIN verdicts : verdicts[k].verdict = "stop" /\ ~verdicts[k].ret
    /\ Len(verdicts) = 2
    /\ Len(calls) = 5

\* Index in the listing of the instance with the name
IndexOf(name) == CHOOSE i \in DOMAIN instances : instances[i].name = name

\* A listed instance other than number i has the snapshot name n
SharesSnapshotName(i, n) ==
    \E j \in DOMAIN instances :
        /\ j # i
        /\ LET uj == get_metadata_value(instances[j], "username")
           IN  get_snapshot_name(IF Truthy(uj) THEN uj.chars ELSE Unknown) = n

\* C19: for an instance the classifier marks keep, the run issues no
\* mutating remote call; the instance stays, and unless another listed
\* instance has the same snapshot name, no call touches the snapshot of its
\* user and a snapshot under that name, if any, is the one the run found.
C19_KeptUntouched ==
    \A k \in DOMAIN kept :
        LET i == IndexOf(kept[k].name)
            n == get_snapshot_name(kept[k].username)
        IN  /\ \A c \in DOMAIN calls : calls[c].idx # i
            /\ kept[k].name \in live
            /\ \/ /\ \A c \in DOMAIN calls :
                        calls[c].call # "instances.delete" => calls[c].target # n
                  /\ \A s \in snapshots : s.name = n => s = PriorSnapshot(n)
               \/ SharesSnapshotName(i, n)

C19_Witness ==
    /\ pc = "done"
    /\ Len(kept) = 1
    /\ Len(stopped) = 1
    /\ ~SharesSnapshotName(IndexOf(kept[1].name), get_snapshot_name(kept[1].username))
    /\ snapshots # {}
    /\ \E s \in snapshots : s = PriorSnapshot(get_snapshot_name(kept[1].username))

====
